---- MODULE Spec2Model ----
(***************************************************************************)
(* Model of bspwm-info (src/src/lib.rs): the iterator WmInfo, whose next() *)
(* reads one line of `bspc subscribe report` into its buffer, and          *)
(* parse_line, which turns that line into a WmRoot.                        *)
(*                                                                         *)
(* Strings are sequences of one-character strings.  The characters are     *)
(* ASCII (the report protocol is ASCII), so the byte indices the code      *)
(* slices with (line[1..], section[1..], section[1..2]) are character      *)
(* indices.  A panic of the code (an unwrap of None, a slice out of range) *)
(* unwinds out of next(): the model records it as pc = "panicked", and no  *)
(* value is returned.                                                      *)
(***************************************************************************)
EXTENDS Naturals, Sequences, FiniteSets

VARIABLES
    buffer,     \* WmInfo.buffer: the String that read_line fills
    closed,     \* child_stdout has reported end of stream
    pc,         \* "idle" | "read_line" | "parse_line" | "panicked"
    n,          \* bytes read_line has appended in the current call
    idx,        \* parse_line: sections of the line the loop has consumed
    monitors,   \* parse_line: the local Vec<Monitor> under construction
    result,     \* what the latest next() returned
    after_err   \* history: the call before the latest one returned Some(Err(e))

vars == <<buffer, closed, pc, n, idx, monitors, result, after_err>>

-----------------------------------------------------------------------------
(* Bounds of the input the child process writes. *)

\* Most sections the enumerated lines have.
MaxSections == 3

\* Sentinel characters: the first character of a line.
Sentinels == {"W"}

\* The section texts the child writes between ':' characters.
SectionTexts ==
    { <<>>,
      <<"M", "1">>, <<"m">>,
      <<"O", "1">>, <<"o">>,
      <<"F", "2">>, <<"f">>,
      <<"U", "3">>, <<"u">>,
      <<"L", "T">>, <<"L", "M">>, <<"L", "X">>, <<"L">>,
      <<"l", "T">>,
      <<"X", "1">> }

\* The worked examples of the protocol, written whole.
ExampleLine1 == <<"W", "M", "1", ":", "O", "1", ":", "F", "2", ":", "F", "f", "3", ":", "L", "T">>
ExampleLine2 == <<"W", "M", "1", ":", "U", "2", ":", "O", "3">>
ExampleLines == {ExampleLine1, ExampleLine2}

-----------------------------------------------------------------------------
(* Values *)

Last(s) == s[Len(s)]

Pending == [tag |-> "Pending", monitors |-> <<>>]   \* no value returned (yet)
None    == [tag |-> "None",    monitors |-> <<>>]
SomeErr == [tag |-> "SomeErr", monitors |-> <<>>]
SomeOk(root) == [tag |-> "SomeOk", monitors |-> root.monitors]

WmRoot(ms) == [monitors |-> ms]

\* a char::is_uppercase that answers for the letter M alone
is_uppercase_OnlyM(c) == c = "M"

\* char::is_uppercase on the characters of the model
is_uppercase(c) == c \in {"W", "M", "O", "F", "U", "L", "T", "X"}

\* str::split(":"): the pieces between the separators; "" splits into [""].
RECURSIVE split(_)
split(s) ==
    IF \A k \in 1..Len(s) : s[k] # ":"
    THEN <<s>>
    ELSE LET p == CHOOSE k \in 1..Len(s) :
                      s[k] = ":" /\ \A j \in 1..(k - 1) : s[j] # ":"
         IN  <<SubSeq(s, 1, p - 1)>> \o split(SubSeq(s, p + 1, Len(s)))

\* line[1..].split(":")
line_sections(line) == split(SubSeq(line, 2, Len(line)))

\* section[0..]: the marker is kept in the name
payload_FromZero(sec) == sec

\* section[1..]
payload(sec) == SubSeq(sec, 2, Len(sec))

NewMonitor(sec, input) ==
    [name |-> payload(sec), desktops |-> <<>>,
     focused |-> is_uppercase(input), layout |-> "None"]

\* the occupied arm naming the desktop by the whole section
OccupiedDesktop_WholeSection(sec, input) ==
    [name |-> sec, occupied |-> TRUE,
     focused |-> is_uppercase(input), urgent |-> FALSE]

OccupiedDesktop(sec, input) ==
    [name |-> payload(sec), occupied |-> TRUE,
     focused |-> is_uppercase(input), urgent |-> FALSE]

\* the free arm with the occupied arm's flag left in
FreeDesktop_Occupied(sec, input) ==
    [name |-> payload(sec), occupied |-> TRUE,
     focused |-> is_uppercase(input), urgent |-> FALSE]

FreeDesktop(sec, input) ==
    [name |-> payload(sec), occupied |-> FALSE,
     focused |-> is_uppercase(input), urgent |-> FALSE]

\* the urgent arm with the free arm's flag left in
UrgentDesktop_NotOccupied(sec, input) ==
    [name |-> payload(sec), occupied |-> FALSE,
     focused |-> is_uppercase(input), urgent |-> TRUE]

UrgentDesktop(sec, input) ==
    [name |-> payload(sec), occupied |-> TRUE,
     focused |-> is_uppercase(input), urgent |-> TRUE]

\* the match with an unrecognized code falling into the Tiling arm
LayoutOf_DefaultTiling(sec) ==
    IF sec[2] = "M" THEN "Monocle" ELSE "Tiling"

\* match &section[1..2] { "T" => Tiling, "M" => Monocle, _ => None }
LayoutOf(sec) ==
    IF sec[2] = "T" THEN "Tiling"
    ELSE IF sec[2] = "M" THEN "Monocle"
    ELSE "None"

\* monitors.insert(0, monitor)
PushMonitor_Front(ms, m) == <<m>> \o ms

\* monitors.push(Monitor { .. })
PushMonitor(ms, m) == Append(ms, m)

\* monitors.first_mut().unwrap().desktops.push(desktop)
PushDesktop_First(ms, d) ==
    [ms EXCEPT ![1].desktops = Append(@, d)]

\* monitors.last_mut().unwrap().desktops.push(desktop)
PushDesktop(ms, d) ==
    [ms EXCEPT ![Len(ms)].desktops = Append(@, d)]

\* for m in monitors.iter_mut() { m.layout = layout }
SetLayout_All(ms, l) ==
    [j \in 1..Len(ms) |-> [ms[j] EXCEPT !.layout = l]]

\* monitors.last_mut().unwrap().layout = layout
SetLayout(ms, l) ==
    [ms EXCEPT ![Len(ms)].layout = l]

-----------------------------------------------------------------------------
(* State *)

Init ==
    /\ buffer = <<>>
    /\ closed = FALSE
    /\ pc = "idle"
    /\ n = 0
    /\ idx = 0
    /\ monitors = <<>>
    /\ result = Pending
    /\ after_err = FALSE

\* The bytes the current read_line call has appended.
ReadSoFar == SubSeq(buffer, Len(buffer) - n + 1, Len(buffer))

Colons(s) == Cardinality({k \in 1..Len(s) : s[k] = ":"})

\* read_line returned Ok(i): next() decides on i
ReadReturnsOk(i) ==
    IF i > 0
    THEN /\ pc' = "parse_line"
         /\ idx' = 0
         /\ monitors' = <<>>
         /\ result' = Pending
    ELSE /\ pc' = "idle"
         /\ result' = None
         /\ UNCHANGED <<idx, monitors>>

-----------------------------------------------------------------------------
(* WmInfo::next *)

\* next() without self.buffer.clear(): read_line appends to the old content
next_call_NoClear ==
    /\ pc = "idle"
    /\ n' = 0
    /\ pc' = "read_line"
    /\ result' = Pending
    /\ after_err' = (result.tag = "SomeErr")
    /\ UNCHANGED <<buffer, closed, idx, monitors>>

\* self.buffer.clear(); then the call blocks in read_line
next_call ==
    /\ pc = "idle"
    /\ buffer' = <<>>
    /\ n' = 0
    /\ pc' = "read_line"
    /\ result' = Pending
    /\ after_err' = (result.tag = "SomeErr")
    /\ UNCHANGED <<closed, idx, monitors>>

\* read_line appends the first bytes of a line: its sentinel and first section
read_first ==
    /\ pc = "read_line" /\ ~closed /\ n = 0
    /\ \E s \in Sentinels, sec \in SectionTexts :
          /\ buffer' = buffer \o <<s>> \o sec
          /\ n' = 1 + Len(sec)
    /\ UNCHANGED <<closed, pc, idx, monitors, result, after_err>>

\* read_line appends one of the worked example lines
read_example ==
    /\ pc = "read_line" /\ ~closed /\ n = 0
    /\ \E l \in ExampleLines :
          /\ buffer' = buffer \o l
          /\ n' = Len(l)
    /\ UNCHANGED <<closed, pc, idx, monitors, result, after_err>>

\* read_line appends a further section of the line
read_more ==
    /\ pc = "read_line" /\ ~closed /\ n > 0
    /\ Colons(ReadSoFar) < MaxSections - 1
    /\ \E sec \in SectionTexts :
          /\ buffer' = buffer \o <<":">> \o sec
          /\ n' = n + 1 + Len(sec)
    /\ UNCHANGED <<closed, pc, idx, monitors, result, after_err>>

\* read_line reads the line terminator and returns Ok(n)
read_newline ==
    /\ pc = "read_line" /\ ~closed
    /\ buffer' = buffer \o <<"\n">>
    /\ n' = n + 1
    /\ ReadReturnsOk(n + 1)
    /\ UNCHANGED <<closed, after_err>>

\* read_line meets the end of the stream and returns Ok(n), n = 0 included
read_eof ==
    /\ pc = "read_line"
    /\ closed' = TRUE
    /\ ReadReturnsOk(n)
    /\ UNCHANGED <<buffer, n, after_err>>

\* read_line fails: next() returns Some(Err(e)); what was read stays in buffer
read_err ==
    /\ pc = "read_line" /\ ~closed
    /\ pc' = "idle"
    /\ result' = SomeErr
    /\ UNCHANGED <<buffer, closed, n, idx, monitors, after_err>>

-----------------------------------------------------------------------------
(* parse_line: one action per arm of the loop body *)

sections == line_sections(buffer)

InLoop == pc = "parse_line" /\ idx < Len(sections)

section == sections[idx + 1]

input == Head(section)

Panic ==
    /\ pc' = "panicked"
    /\ UNCHANGED <<buffer, closed, n, idx, monitors, result, after_err>>

Continue(ms) ==
    /\ monitors' = ms
    /\ idx' = idx + 1
    /\ UNCHANGED <<buffer, closed, pc, n, result, after_err>>

\* section.chars().nth(0).unwrap() on an empty section
unwrap_input ==
    /\ InLoop /\ section = <<>>
    /\ Panic

arm_monitor ==
    /\ InLoop /\ section # <<>> /\ input \in {"M", "m"}
    /\ Continue(PushMonitor(monitors, NewMonitor(section, input)))

arm_occupied ==
    /\ InLoop /\ section # <<>> /\ input \in {"O", "o"}
    /\ IF monitors = <<>> THEN Panic
       ELSE Continue(PushDesktop(monitors, OccupiedDesktop(section, input)))

arm_free ==
    /\ InLoop /\ section # <<>> /\ input \in {"F", "f"}
    /\ IF monitors = <<>> THEN Panic
       ELSE Continue(PushDesktop(monitors, FreeDesktop(section, input)))

arm_urgent ==
    /\ InLoop /\ section # <<>> /\ input \in {"U", "u"}
    /\ IF monitors = <<>> THEN Panic
       ELSE Continue(PushDesktop(monitors, UrgentDesktop(section, input)))

\* the layout arm written 'L' | 'l'
arm_layout_AnyCase ==
    /\ InLoop /\ section # <<>> /\ input \in {"L", "l"}
    /\ IF Len(section) < 2 \/ monitors = <<>> THEN Panic
       ELSE Continue(SetLayout(monitors, LayoutOf(section)))

\* &section[1..2] panics on a section of one byte, then last_mut().unwrap()
arm_layout ==
    /\ InLoop /\ section # <<>> /\ input = "L"
    /\ IF Len(section) < 2 \/ monitors = <<>> THEN Panic
       ELSE Continue(SetLayout(monitors, LayoutOf(section)))

\* the catch-all arm written _ => unreachable!()
arm_other_Unreachable ==
    /\ InLoop /\ section # <<>>
    /\ input \notin {"M", "m", "O", "o", "F", "f", "U", "u", "L"}
    /\ Panic

arm_other ==
    /\ InLoop /\ section # <<>>
    /\ input \notin {"M", "m", "O", "o", "F", "f", "U", "u", "L"}
    /\ Continue(monitors)

\* the loop is over: WmRoot { monitors } moves out and next() returns Some(Ok(..))
parse_return ==
    /\ pc = "parse_line" /\ idx = Len(sections)
    /\ result' = SomeOk(WmRoot(monitors))
    /\ pc' = "idle"
    /\ idx' = 0
    /\ monitors' = <<>>
    /\ UNCHANGED <<buffer, closed, n, after_err>>

-----------------------------------------------------------------------------

Next ==
    \/ next_call
    \/ read_first
    \/ read_example
    \/ read_more
    \/ read_newline
    \/ read_eof
    \/ read_err
    \/ unwrap_input
    \/ arm_monitor
    \/ arm_occupied
    \/ arm_free
    \/ arm_urgent
    \/ arm_layout
    \/ arm_other
    \/ parse_return

Spec == Init /\ [][Next]_vars

-----------------------------------------------------------------------------
(* The protocol grammar, read off the raw line by character positions.     *)
(* These definitions state what the properties below expect; the parser    *)
(* above does not use them.                                                *)

MonitorMarkers == {"M", "m"}
DesktopMarkers == {"O", "o", "F", "f", "U", "u"}

\* positions of the marker characters: the first character of each non-empty
\* section of the text after the sentinel
MarkerPos(line) ==
    {p \in 2..Len(line) : (p = 2 \/ line[p - 1] = ":") /\ line[p] # ":"}

\* the position just after the section that starts at p
SectionEnd(line, p) ==
    CHOOSE q \in p..(Len(line) + 1) :
        /\ q = Len(line) + 1 \/ line[q] = ":"
        /\ \A j \in p..(q - 1) : line[j] # ":"

\* the text of the section at p after its marker
PayloadAt(line, p) == SubSeq(line, p + 1, SectionEnd(line, p) - 1)

RECURSIVE SortedSeq(_)
SortedSeq(S) ==
    IF S = {} THEN <<>>
    ELSE LET m == CHOOSE x \in S : \A y \in S : x <= y
         IN  <<m>> \o SortedSeq(S \ {m})

\* positions of the monitor sections, left to right
MonPos(line) == SortedSeq({p \in MarkerPos(line) : line[p] \in MonitorMarkers})

\* positions of the desktop sections between the j-th monitor section and the
\* next monitor section (or the end of the line), left to right
DeskPos(line, j) ==
    LET mp == MonPos(line)
    IN  SortedSeq({p \in MarkerPos(line) :
                      /\ line[p] \in DesktopMarkers
                      /\ p > mp[j]
                      /\ (j < Len(mp) => p < mp[j + 1])})

\* the line has an empty section (after the sentinel)
HasEmptySection(line) ==
    \/ Len(line) = 1
    \/ Len(line) >= 2 /\ (line[2] = ":" \/ line[Len(line)] = ":")
    \/ \E p \in 2..(Len(line) - 1) : line[p] = ":" /\ line[p + 1] = ":"

\* a desktop or layout section occurs before any monitor section
FieldBeforeMonitor(line) ==
    \E p \in MarkerPos(line) :
        /\ line[p] \in DesktopMarkers \cup {"L"}
        /\ \A q \in MarkerPos(line) : q < p => line[q] \notin MonitorMarkers

\* next() has returned Some(Ok(snapshot)) for the line in buffer
Returned == pc = "idle" /\ result.tag = "SomeOk"

\* the section the loop of parse_line has just consumed
Consumed == pc = "parse_line" /\ idx >= 1

-----------------------------------------------------------------------------
(* Properties *)

\* C1: a line with a desktop or layout section before any monitor section
\* ends in a parse failure returned to the caller, never in a crash.
C1_FieldBeforeMonitorIsError ==
    FieldBeforeMonitor(buffer) =>
        /\ pc # "panicked"
        /\ (pc = "idle" => result.tag = "SomeErr")

\* C2: the returned snapshot has one monitor per M/m section of the line, in
\* the left-to-right order of those sections.
C2_MonitorCountAndOrder ==
    Returned =>
        LET mp == MonPos(buffer)
            ms == result.monitors
        IN  /\ Len(ms) = Len(mp)
            /\ \A j \in 1..Len(ms) : ms[j].name = PayloadAt(buffer, mp[j])

C2_Witness ==
    /\ Returned
    /\ Len(result.monitors) = 2
    /\ result.monitors[1].name # result.monitors[2].name

\* C3: each monitor's desktop list is exactly the desktop sections between
\* its own M/m section and the next one, in the same order.
C3_DesktopsBelongToTheirMonitor ==
    Returned =>
        \A j \in 1..Len(result.monitors) :
            LET ds == result.monitors[j].desktops
                dp == DeskPos(buffer, j)
            IN  /\ Len(ds) = Len(dp)
                /\ \A k \in 1..Len(ds) : ds[k].name = PayloadAt(buffer, dp[k])

C3_Witness ==
    /\ Returned
    /\ Len(result.monitors) = 2
    /\ Len(result.monitors[1].desktops) = 1
    /\ Len(result.monitors[2].desktops) = 0

\* C4: an O/o section gives occupied and not urgent, an F/f section neither,
\* a U/u section both; the desktop's name is the section text after the marker.
C4_DesktopFlagsFollowMarker ==
    Returned =>
        \A j \in 1..Len(result.monitors) :
            LET ds == result.monitors[j].desktops
                dp == DeskPos(buffer, j)
            IN  \A k \in 1..Len(ds) :
                    k <= Len(dp) =>
                        LET c == buffer[dp[k]]
                        IN  /\ ds[k].name = PayloadAt(buffer, dp[k])
                            /\ ds[k].occupied = (c \in {"O", "o", "U", "u"})
                            /\ ds[k].urgent = (c \in {"U", "u"})

C4_Witness ==
    /\ Returned
    /\ \E j \in 1..Len(result.monitors) :
          LET ds == result.monitors[j].desktops
          IN  /\ Len(ds) = 2
              /\ ds[1].urgent /\ ds[1].occupied
              /\ ~ds[2].urgent /\ ~ds[2].occupied

\* C5: a monitor or desktop is focused exactly when the marker of its section
\* is the uppercase letter.
C5_FocusedIffUppercaseMarker ==
    Returned =>
        LET mp == MonPos(buffer)
        IN  \A j \in 1..Len(result.monitors) :
                /\ j <= Len(mp) =>
                       result.monitors[j].focused = (buffer[mp[j]] = "M")
                /\ LET ds == result.monitors[j].desktops
                       dp == DeskPos(buffer, j)
                   IN  \A k \in 1..Len(ds) :
                           k <= Len(dp) =>
                               ds[k].focused = (buffer[dp[k]] \in {"O", "F", "U"})

C5_Witness ==
    /\ Returned
    /\ \E j \in 1..Len(result.monitors) :
          /\ ~result.monitors[j].focused
          /\ Len(result.monitors[j].desktops) = 2
          /\ result.monitors[j].desktops[1].focused
          /\ ~result.monitors[j].desktops[2].focused

\* C6: no desktop is ever urgent without being occupied, in the snapshot
\* under construction and in the snapshot returned.
C6_UrgentImpliesOccupied ==
    \A ms \in {monitors, result.monitors} :
        \A j \in 1..Len(ms) :
            \A k \in 1..Len(ms[j].desktops) :
                ms[j].desktops[k].urgent => ms[j].desktops[k].occupied

C6_Witness ==
    /\ pc = "parse_line"
    /\ \E j \in 1..Len(monitors) :
          \E k \in 1..Len(monitors[j].desktops) : monitors[j].desktops[k].urgent

\* C7: an L section after a monitor section sets the current monitor's
\* layout to Tiling for 'T', Monocle for 'M' and unset for any other first
\* character of the payload, and parsing does not fail on it.
C7_LayoutFromFirstPayloadChar ==
    /\ (Consumed /\ Len(sections[idx]) >= 2 /\ sections[idx][1] = "L") =>
           Last(monitors).layout =
               (CASE sections[idx][2] = "T" -> "Tiling"
                  [] sections[idx][2] = "M" -> "Monocle"
                  [] OTHER -> "None")
    /\ (pc = "panicked" /\ monitors # <<>>) =>
           ~(Len(section) >= 2 /\ section[1] = "L")

C7_Witness ==
    /\ Consumed
    /\ idx = 3
    /\ sections[2] = <<"L", "T">>
    /\ sections[3] = <<"L", "X">>
    /\ Last(monitors).layout = "None"

\* C8: a line that is the sentinel character alone parses to a snapshot with
\* an empty monitor list: not an error, not a crash.
C8_SentinelOnlyIsEmptySnapshot ==
    (buffer \in {<<s>> : s \in Sentinels} /\ pc \in {"idle", "panicked"}) =>
        /\ pc = "idle"
        /\ result.tag \in {"SomeOk", "SomeErr"}
        /\ (result.tag = "SomeOk" => result.monitors = <<>>)

\* the snapshot the protocol's first worked example is said to give
C9_ExampleAsWritten ==
    << [name |-> <<"1">>, focused |-> FALSE, layout |-> "Tiling",
        desktops |->
            << [name |-> <<"1">>, occupied |-> TRUE, focused |-> FALSE, urgent |-> FALSE],
               [name |-> <<"2">>, occupied |-> FALSE, focused |-> FALSE, urgent |-> FALSE],
               [name |-> <<"3">>, occupied |-> FALSE, focused |-> FALSE, urgent |-> FALSE] >>] >>

\* the snapshot it gives: every marker of the line is uppercase, and the
\* fourth section is the marker F with the payload "f3"
C9_ExampleAsParsed ==
    << [name |-> <<"1">>, focused |-> TRUE, layout |-> "Tiling",
        desktops |->
            << [name |-> <<"1">>, occupied |-> TRUE, focused |-> TRUE, urgent |-> FALSE],
               [name |-> <<"2">>, occupied |-> FALSE, focused |-> TRUE, urgent |-> FALSE],
               [name |-> <<"f", "3">>, occupied |-> FALSE, focused |-> TRUE, urgent |-> FALSE] >>] >>

IsExample1 == buffer \in {ExampleLine1, ExampleLine1 \o <<"\n">>}

\* C9 as stated: "WM1:O1:F2:Ff3:LT" gives one unfocused monitor "1", layout
\* Tiling, with the unfocused desktops "1" (occupied), "2" and "3" (free).
C9_Original ==
    (IsExample1 /\ Returned) => result.monitors = C9_ExampleAsWritten

\* C9 amended: "WM1:O1:F2:Ff3:LT" gives one focused monitor "1", layout
\* Tiling, with the focused desktops "1" (occupied), "2" and "f3" (free).
C9_Amended ==
    IsExample1 =>
        /\ pc # "panicked"
        /\ (Returned => result.monitors = C9_ExampleAsParsed)

C9_Witness == buffer = ExampleLine1 /\ Returned

\* C10: the next() call that receives a malformed line (an empty section, or
\* a desktop or layout section before any monitor) returns Some(Err(..)) and
\* leaves the iterator able to serve the next call.
C10_ParseFailureIsReturned ==
    ((HasEmptySection(buffer) \/ FieldBeforeMonitor(buffer))
        /\ pc \in {"idle", "panicked"}) =>
        /\ pc = "idle"
        /\ result.tag = "SomeErr"
        /\ ENABLED next_call

-----------------------------------------------------------------------------
(* The stream, the frame of a section, and the edge cases of a section *)

KnownMarkers == MonitorMarkers \cup DesktopMarkers \cup {"L"}

\* read_line has delivered a newline-terminated line, sentinel first, to the
\* current call
FullLineRead ==
    /\ n > 1
    /\ Len(buffer) > 1
    /\ buffer[1] \in Sentinels
    /\ Last(buffer) = "\n"

\* the call that read the line in buffer is over, one way or the other
CallOver == pc \in {"idle", "panicked"}

LayoutCode(c) ==
    CASE c = "T" -> "Tiling"
      [] c = "M" -> "Monocle"
      [] OTHER -> "None"

\* C11: next() returns None exactly when the read reports zero bytes, and
\* every full line the stream delivers is answered by the call that read it
\* with Some(..) for that line.
C11_EveryLineIsAnswered ==
    /\ (pc = "idle" /\ result.tag = "None") => (n = 0 /\ closed)
    /\ (pc = "idle" /\ n = 0 /\ closed) => result.tag = "None"
    /\ (CallOver /\ FullLineRead /\ result.tag # "SomeErr") =>
           (pc = "idle" /\ result.tag = "SomeOk")

\* C12: a read error is returned as Some(Err(..)) and does not end the
\* sequence: the call after it returns None only at the end of the stream,
\* and returns Some(Ok(snapshot)) when its own read delivers a line.
C12_ReadErrorDoesNotEndSequence ==
    /\ (after_err /\ pc = "idle" /\ result.tag = "None") => (n = 0 /\ closed)
    /\ (after_err /\ CallOver /\ FullLineRead /\ result.tag # "SomeErr") =>
           (pc = "idle" /\ result.tag = "SomeOk")

\* C13: a section whose first character is no known marker changes nothing
\* of the monitor list, and the loop goes on to the next section.
C13_UnknownMarkerChangesNothing ==
    [][(InLoop /\ section # <<>> /\ input \notin KnownMarkers) =>
           /\ monitors' = monitors
           /\ idx' = idx + 1
           /\ pc' = "parse_line"]_vars

C13_Witness ==
    /\ Consumed
    /\ sections[idx] = <<"X", "1">>
    /\ Len(monitors) = 1
    /\ Len(monitors[1].desktops) = 1

\* C14: an L section sets the layout of the last monitor only, replacing the
\* value an earlier L section gave it; every other monitor, and the name,
\* focused flag and desktops of every monitor, stay as they were; a monitor
\* with no L section before the next monitor section has its layout unset.
C14_LayoutTouchesLastMonitorOnly ==
    /\ [][(InLoop /\ Len(section) >= 2 /\ section[1] = "L" /\ monitors # <<>>) =>
              /\ pc' = "parse_line"
              /\ Len(monitors') = Len(monitors)
              /\ \A j \in 1..(Len(monitors) - 1) : monitors'[j] = monitors[j]
              /\ Last(monitors').name = Last(monitors).name
              /\ Last(monitors').focused = Last(monitors).focused
              /\ Last(monitors').desktops = Last(monitors).desktops
              /\ Last(monitors').layout = LayoutCode(section[2])]_vars
    /\ [](Returned =>
              LET mp == MonPos(buffer)
              IN  \A j \in 1..Len(result.monitors) :
                      (j <= Len(mp) /\
                       ~\E p \in MarkerPos(buffer) :
                            /\ buffer[p] = "L"
                            /\ p > mp[j]
                            /\ (j < Len(mp) => p < mp[j + 1]))
                          => result.monitors[j].layout = "None")

C14_Witness ==
    /\ Consumed
    /\ idx = 3
    /\ sections[2] = <<"L", "M">>
    /\ sections[3] = <<"L", "X">>
    /\ Len(monitors) = 1
    /\ monitors[1].layout = "None"

\* C15: a section that is exactly "L", after a monitor section, does not
\* crash the parser.
C15_BareLayoutDoesNotCrash ==
    (pc = "panicked" /\ monitors # <<>>) => section # <<"L">>

\* C16: an entirely empty section does not crash the parser.
C16_EmptySectionDoesNotCrash ==
    (pc = "panicked" /\ buffer[1] \in Sentinels /\ Colons(buffer) > 0) =>
        section # <<>>

\* C17 as stated: a section with marker 'l' after a monitor sets the layout
\* from its payload as the marker 'L' does.
C17_Original ==
    (Consumed /\ Len(sections[idx]) >= 2 /\ sections[idx][1] = "l"
        /\ monitors # <<>>) =>
        Last(monitors).layout = LayoutCode(sections[idx][2])

\* C17 amended: the layout marker is the uppercase 'L' alone; a section with
\* marker 'l' is an unrecognized section and leaves every layout as it was.
C17_Amended ==
    [][(InLoop /\ section # <<>> /\ input = "l") =>
           /\ monitors' = monitors
           /\ idx' = idx + 1
           /\ pc' = "parse_line"]_vars

C17_Witness ==
    /\ Consumed
    /\ sections[idx] = <<"l", "T">>
    /\ monitors # <<>>
    /\ Last(monitors).layout = "None"

\* C18: a monitor or desktop section that is the marker alone appends a
\* monitor or desktop with the empty name and the marker's flags, and is no
\* error.
C18_EmptyPayloadIsEmptyName ==
    /\ (Consumed /\ Len(sections[idx]) = 1
            /\ sections[idx][1] \in MonitorMarkers) =>
           Last(monitors) =
               [name |-> <<>>, desktops |-> <<>>,
                focused |-> (sections[idx][1] = "M"), layout |-> "None"]
    /\ (Consumed /\ Len(sections[idx]) = 1
            /\ sections[idx][1] \in DesktopMarkers) =>
           Last(Last(monitors).desktops) =
               [name |-> <<>>,
                occupied |-> (sections[idx][1] \in {"O", "o", "U", "u"}),
                urgent |-> (sections[idx][1] \in {"U", "u"}),
                focused |-> (sections[idx][1] \in {"O", "F", "U"})]
    /\ pc = "panicked" =>
           ~(/\ Len(section) = 1
             /\ \/ section[1] \in MonitorMarkers
                \/ section[1] \in DesktopMarkers /\ monitors # <<>>)

C18_Witness ==
    /\ Consumed
    /\ idx = 2
    /\ sections[1] = <<"m">>
    /\ sections[2] = <<"o">>
    /\ monitors[1].name = <<>>
    /\ monitors[1].desktops[1].name = <<>>

HasNewline(name) == \E k \in 1..Len(name) : name[k] = "\n"

\* C19: no monitor or desktop name of a snapshot returned by next() contains
\* the line terminator.
C19_NamesExcludeTerminator ==
    Returned =>
        \A j \in 1..Len(result.monitors) :
            /\ ~HasNewline(result.monitors[j].name)
            /\ \A k \in 1..Len(result.monitors[j].desktops) :
                   ~HasNewline(result.monitors[j].desktops[k].name)

\* the snapshot of a line, read off the line alone
ExpectedDesktop(line, p) ==
    [name |-> PayloadAt(line, p),
     occupied |-> (line[p] \in {"O", "o", "U", "u"}),
     urgent |-> (line[p] \in {"U", "u"}),
     focused |-> (line[p] \in {"O", "F", "U"})]

ExpectedLayout(line, j) ==
    LET mp == MonPos(line)
        lp == {p \in MarkerPos(line) :
                  /\ line[p] = "L"
                  /\ p > mp[j]
                  /\ (j < Len(mp) => p < mp[j + 1])}
    IN  IF lp = {} THEN "None"
        ELSE LET p == CHOOSE x \in lp : \A y \in lp : y <= x
             IN  IF PayloadAt(line, p) = <<>> THEN "None"
                 ELSE LayoutCode(line[p + 1])

ExpectedSnapshot(line) ==
    LET mp == MonPos(line)
    IN  [j \in 1..Len(mp) |->
            [name |-> PayloadAt(line, mp[j]),
             focused |-> (line[mp[j]] = "M"),
             layout |-> ExpectedLayout(line, j),
             desktops |->
                 [k \in 1..Len(DeskPos(line, j)) |->
                     ExpectedDesktop(line, DeskPos(line, j)[k])]]]

\* C20: every call overwrites the buffer: while a line is parsed the buffer
\* holds the bytes of this call's read and no others, and the snapshot
\* returned is the snapshot of that line alone, whatever earlier calls read.
C20_SnapshotOfOwnLineOnly ==
    /\ pc \in {"read_line", "parse_line"} => Len(buffer) = n
    /\ Returned =>
           /\ Len(buffer) = n
           /\ result.monitors = ExpectedSnapshot(ReadSoFar)

C20_Witness ==
    /\ Returned
    /\ after_err
    /\ Len(result.monitors) = 1
    /\ Len(result.monitors[1].desktops) = 2

====
